---- MODULE Spec2Model ----
(***************************************************************************)
(* CameraMovementDetector.detect (src/movement_detector/detector.py) and   *)
(* the scoring functions it calls (scoring.py, utils.py).                  *)
(*                                                                         *)
(* Units.  Scores, thresholds and the entries of a homography are fixed    *)
(* point numbers in hundredths (5.0 is 500).  Pixel intensities, Hamming   *)
(* distances and keypoint coordinates are whole numbers.  Divisions round  *)
(* down.                                                                   *)
(*                                                                         *)
(* OpenCV.  What cv2 returns for a frame or a frame pair (descriptors,     *)
(* matches, the homography, tracked corners) is an input of the loop       *)
(* iteration, drawn from a small set; what the repository computes from    *)
(* it is computed here.                                                    *)
(***************************************************************************)
EXTENDS Integers, Sequences, FiniteSets, TLC

VARIABLES
    self,                    \* the detector's configuration (__init__)
    pc,                      \* "loop" inside the for loop, "done" after return,
                             \* "raised" after an exception left detect, "call" and
                             \* "returned" around a function called on its own
    idx,                     \* number of frames consumed = index of the next frame
    prev_frame,              \* detector.py:20,72
    prev_des,                \* detector.py:22,74 (prev_kp travels with the matches)
    movement_indices,        \* detector.py:15
    movement_scores,         \* detector.py:16
    transformation_matrices, \* detector.py:17
    last,                    \* history: what the latest iteration did
    low,                     \* a second run of detect on the same frames (SpecPair)
    call                     \* a function called on its own: arguments and result

vars == <<self, pc, idx, prev_frame, prev_des, movement_indices,
          movement_scores, transformation_matrices, last, low, call>>

----------------------------------------------------------------------------
(* Bounds of the model *)

MaxFrames == 3

MaxMatches == 4

----------------------------------------------------------------------------
(* Program constants *)

\* app.py:48, the smallest feature threshold the sidebar offers (1.0)
FeatureThresholdMin == 100
\* detector.py:9, the default feature threshold (5.0)
FeatureThresholdDefault == 500
\* app.py:56, the smallest homography threshold the sidebar offers (5.0)
HomographyThresholdMin == 500
\* detector.py:9, the default homography threshold (15.0)
HomographyThresholdDefault == 1500
\* app.py:64, the smallest min_match_count the sidebar offers
MinMatchCountMin == 4
\* detector.py:9, the default min_match_count
MinMatchCountDefault == 8
\* detector.py:38, the ceiling of the adaptive distance threshold
DistanceCeiling == 50
\* utils.py:13, the intensity difference that counts a pixel as changed
DiffThreshold == 25
\* utils.py:38, Canny's upper hysteresis threshold
CannyHigh == 150
\* utils.py:25, corners needed (strictly more than) before tracking
MinCorners == 10
\* utils.py:29, tracked corners needed (strictly more than) for a flow score
MinTracked == 5

----------------------------------------------------------------------------
(* Python's None, and optional values *)

None == [none |-> TRUE]

Abs(x) == IF x < 0 THEN -x ELSE x

Min2(a, b) == IF a < b THEN a ELSE b

Max2(a, b) == IF a > b THEN a ELSE b

RECURSIVE SumSeq(_)
SumSeq(s) == IF s = <<>> THEN 0 ELSE Head(s) + SumSeq(Tail(s))

RECURSIVE SqrtSearch(_, _, _)
SqrtSearch(n, lo, hi) ==
    IF lo >= hi THEN lo
    ELSE LET mid == (lo + hi + 1) \div 2
         IN  IF mid * mid <= n THEN SqrtSearch(n, mid, hi)
                               ELSE SqrtSearch(n, lo, mid - 1)

\* np.sqrt on whole numbers, rounded down (46340 is the largest root of a
\* 32-bit number)
ISqrt(n) == SqrtSearch(n, 0, Min2(n, 46340))

----------------------------------------------------------------------------
(* numpy helpers used by scoring.py and utils.py *)

\* np.linalg.norm(dst - src) of one point pair, in hundredths of a pixel
Norm(src, dst) ==
    LET dx == dst[1] - src[1]
        dy == dst[2] - src[2]
    IN  ISqrt(10000 * (dx * dx + dy * dy))

\* displacements = np.linalg.norm(dst_pts - src_pts, axis=1)
Displacements(src_pts, dst_pts) ==
    [i \in 1..Len(src_pts) |-> Norm(src_pts[i], dst_pts[i])]

\* np.var with the two terms of the difference swapped
VarianceSwapped(ds) ==
    LET n  == Len(ds)
        s1 == SumSeq(ds)
        s2 == SumSeq([i \in 1..n |-> ds[i] * ds[i]])
    IN  ((s1 * s1 - n * s2) \div (n * n)) \div 100

\* np.var of values in hundredths, in hundredths
Variance(ds) ==
    LET n  == Len(ds)
        s1 == SumSeq(ds)
        s2 == SumSeq([i \in 1..n |-> ds[i] * ds[i]])
    IN  ((n * s2 - s1 * s1) \div (n * n)) \div 100

RECURSIVE InsertSorted(_, _)
InsertSorted(x, s) ==
    IF s = <<>> THEN <<x>>
    ELSE IF x < Head(s) THEN <<x>> \o s
         ELSE <<Head(s)>> \o InsertSorted(x, Tail(s))

RECURSIVE SortValues(_)
SortValues(s) == IF s = <<>> THEN <<>> ELSE InsertSorted(Head(s), SortValues(Tail(s)))

\* np.median: the middle value, or the mean of the two middle values
Median(ds) ==
    LET n == Len(ds)
        s == SortValues(ds)
    IN  IF n % 2 = 1 THEN s[(n + 1) \div 2]
        ELSE (s[n \div 2] + s[n \div 2 + 1]) \div 2

\* arctan on [0, 1]: ratio and result in hundredths
AtanUnit(r) == (7854 * r + (2730 * r * (100 - r)) \div 100) \div 10000

\* np.arctan2(y, x) in hundredths of a radian (pi is 314)
Arctan2(y, x) ==
    LET ay == Abs(y)
        ax == Abs(x)
        a  == IF ax = 0 /\ ay = 0 THEN 0
              ELSE IF ay <= ax
                   THEN (IF x > 0 THEN AtanUnit((ay * 100) \div ax)
                                  ELSE 314 - AtanUnit((ay * 100) \div ax))
                   ELSE (IF x >= 0 THEN 157 - AtanUnit((ax * 100) \div ay)
                                   ELSE 157 + AtanUnit((ax * 100) \div ay))
    IN  IF y < 0 THEN -a ELSE a

----------------------------------------------------------------------------
(* scoring.py *)

\* calculate_movement_score, the branch H is not None
HomographyScore(H, src_pts, dst_pts) ==
    LET m == H.m
        translation_x == m[1][3]
        translation_y == m[2][3]
        translation_magnitude ==
            ISqrt(translation_x * translation_x + translation_y * translation_y)
        rotation_angle == Arctan2(m[2][1], m[1][1])
        rotation_magnitude == Abs(rotation_angle)
        scale_x == ISqrt(m[1][1] * m[1][1] + m[2][1] * m[2][1])
        scale_y == ISqrt(m[1][2] * m[1][2] + m[2][2] * m[2][2])
        scale_change == Abs(100 - (scale_x + scale_y) \div 2)
        perspective_dist == Abs(m[3][1]) + Abs(m[3][2])
        displacements == Displacements(src_pts, dst_pts)
        displacement_variance ==
            IF Len(src_pts) > 0 /\ Len(dst_pts) > 0
            THEN (IF Len(displacements) > 1 THEN Variance(displacements) ELSE 0)
            ELSE 0
    IN  (translation_magnitude * 15) \div 10
        + rotation_magnitude * 30
        + scale_change * 50
        + perspective_dist * 20
        + displacement_variance \div 10

\* calculate_movement_score, the branch H is None
DisplacementScore(src_pts, dst_pts) ==
    IF Len(src_pts) = 0 \/ Len(dst_pts) = 0 THEN 0
    ELSE LET displacements == Displacements(src_pts, dst_pts)
             median_displacement == Median(displacements)
             displacement_variance == Variance(displacements)
         IN  median_displacement + displacement_variance \div 10

calculate_movement_score(H, src_pts, dst_pts) ==
    IF H # None THEN HomographyScore(H, src_pts, dst_pts)
                ELSE DisplacementScore(src_pts, dst_pts)

----------------------------------------------------------------------------
(* utils.py *)

\* cv2 raises on two images of different shapes; every scorer catches it
ShapeFault(prev, curr) == Len(prev.pix) # Len(curr.pix)

\* cv2.absdiff adding the two images
AbsDiffSum(a, b) == [i \in 1..Len(a) |-> a[i] + b[i]]

\* cv2.absdiff
AbsDiff(a, b) == [i \in 1..Len(a) |-> Abs(a[i] - b[i])]

calculate_frame_difference_score(prev, curr) ==
    IF ShapeFault(prev, curr) THEN 0
    ELSE LET diff == AbsDiff(prev.pix, curr.pix)
             changed_pixels == Cardinality({i \in 1..Len(diff) : diff[i] > DiffThreshold})
             total_pixels == Len(diff)
         IN  (changed_pixels * 10000 + SumSeq(diff) * 10) \div total_pixels

\* utils.py:22-34 without the test on the number of corners found
OpticalFlowScoreTrackedOnly(prev, curr, flow) ==
    IF ShapeFault(prev, curr) THEN 0
    ELSE IF flow.tracked > MinTracked
         THEN flow.median * 3
         ELSE 0

calculate_optical_flow_score(prev, curr, flow) ==
    IF ShapeFault(prev, curr) THEN 0
    ELSE IF flow.corners > MinCorners /\ flow.tracked > MinTracked
         THEN flow.median * 3
         ELSE 0

\* cv2.Canny on a row of pixels: an edge (255) where the step to a neighbour
\* exceeds the upper threshold
Canny(pix) ==
    [i \in 1..Len(pix) |->
        IF \E j \in 1..Len(pix) : Abs(i - j) = 1 /\ Abs(pix[i] - pix[j]) > CannyHigh
        THEN 255 ELSE 0]

calculate_edge_motion_score(prev, curr) ==
    IF ShapeFault(prev, curr) THEN 0
    ELSE LET edge_diff == AbsDiff(Canny(prev.pix), Canny(curr.pix))
         IN  (SumSeq(edge_diff) * 50) \div Len(edge_diff)

----------------------------------------------------------------------------
(* Inputs: frames, and what OpenCV returns for them *)

\* gray images: a row of intensities (one frame of another width, so that
\* cv2 can fault on a pair)
Images == { <<0, 0>>, <<0, 200>>, <<0>> }

\* orb.detectAndCompute: no descriptors (None), an empty array, or descriptors
Descriptors == { None, [len |-> 0], [len |-> MaxMatches] }

\* a frame together with the descriptors ORB finds in it
Frames == [pix : Images, des : Descriptors]

\* a match: its Hamming distance and the two keypoints it pairs
\* (prev_kp[m.queryIdx].pt and kp[m.trainIdx].pt)
\* (only the closest pairs of a scene move apart in these inputs)
MatchValues ==
    [distance : {0, 10, 30}, src : {<<0, 0>>}, dst : {<<0, 0>>}]
    \cup [distance : {10}, src : {<<0, 0>>}, dst : {<<3, 4>>}]

MatchRank(m) == m.distance * 10 + m.dst[1]

\* bf.match returns the matches in an order of its own; the lists here put
\* the worst match first.  crossCheck pairs each descriptor at most once.
MatchListsUpTo(n) ==
    UNION { { ms \in [1..k -> MatchValues] :
                \A i \in 1..(k - 1) : MatchRank(ms[i]) >= MatchRank(ms[i + 1]) }
            : k \in 0..n }

MatchLists == MatchListsUpTo(MaxMatches)

Matrix(a, b, c, d, e, f, g, h) == [m |-> << <<a, b, c>>, <<d, e, f>>, <<g, h, 100>> >>]

\* cv2.findHomography: no transform, the identity, a translation, and a
\* transform with rotation, scaling and perspective
HomographyResults ==
    { None,
      Matrix(100, 0, 0, 0, 100, 0, 0, 0),
      Matrix(100, 0, 300, 0, 100, 400, 0, 0),
      Matrix(90, -10, 300, 10, 90, 400, 1, 0) }

\* cv2.goodFeaturesToTrack and cv2.calcOpticalFlowPyrLK: corners found,
\* corners tracked, and the median displacement of the tracked ones
OpticalFlowResults ==
    { [corners |-> 0, tracked |-> 0, median |-> 0],
      [corners |-> 11, tracked |-> 6, median |-> 100] }

\* detector.py:9-12 with the values the application's sidebar can pass
Configurations ==
    [threshold_feature : {FeatureThresholdMin, FeatureThresholdDefault},
     threshold_homography : {HomographyThresholdMin, HomographyThresholdDefault},
     min_match_count : {MinMatchCountMin}]

\* detector.py:9, CameraMovementDetector()
DefaultConfiguration ==
    [threshold_feature |-> FeatureThresholdDefault,
     threshold_homography |-> HomographyThresholdDefault,
     min_match_count |-> MinMatchCountDefault]

----------------------------------------------------------------------------
(* detector.py: one iteration of the loop of detect *)

RECURSIVE InsertMatch(_, _)
InsertMatch(x, s) ==
    IF s = <<>> THEN <<x>>
    ELSE IF x.distance < Head(s).distance THEN <<x>> \o s
         ELSE <<Head(s)>> \o InsertMatch(x, Tail(s))

RECURSIVE SortFrom(_, _)
SortFrom(s, acc) ==
    IF s = <<>> THEN acc ELSE SortFrom(Tail(s), InsertMatch(Head(s), acc))

\* sorted(matches, key=lambda x: x.distance), which is stable
SortByDistance(matches) == SortFrom(matches, <<>>)

\* detector.py:36-39 with <= in place of <
GoodMatchesInclusive(matches) ==
    IF Len(matches) > 0
    THEN LET distance_threshold10 == Min2(DistanceCeiling * 10, matches[1].distance * 25)
             Good(m) == m.distance * 10 <= distance_threshold10
         IN  SelectSeq(matches, Good)
    ELSE <<>>

\* detector.py:36-39 with the best distance taken as at least 1
GoodMatchesFloor(matches) ==
    IF Len(matches) > 0
    THEN LET distance_threshold10 ==
                 Min2(DistanceCeiling * 10, Max2(matches[1].distance, 1) * 25)
             Good(m) == m.distance * 10 < distance_threshold10
         IN  SelectSeq(matches, Good)
    ELSE <<>>

\* detector.py:36-39, the adaptive good-match filter
GoodMatches(matches) ==
    IF Len(matches) > 0
    THEN LET distance_threshold10 == Min2(DistanceCeiling * 10, matches[1].distance * 25)
             Good(m) == m.distance * 10 < distance_threshold10
         IN  SelectSeq(matches, Good)
    ELSE <<>>

\* the comparison of detector.py:46 made against the feature threshold
ExceedsHomographyFeature(cfg, movement_score) == movement_score > cfg.threshold_feature

\* detector.py:46
ExceedsHomography(cfg, movement_score) == movement_score > cfg.threshold_homography

\* the comparison of detector.py:50 without its factor 0.5
ExceedsRelaxedWhole(cfg, movement_score) == movement_score > cfg.threshold_homography

\* detector.py:50, threshold_homography * 0.5
ExceedsRelaxed(cfg, movement_score) == movement_score * 10 > cfg.threshold_homography * 5

\* the comparison of detector.py:61 turned round
ExceedsFeatureInverted(cfg, movement_score) == movement_score < cfg.threshold_feature

\* detector.py:61
ExceedsFeature(cfg, movement_score) == movement_score > cfg.threshold_feature

\* detector.py:40 without its test
EnoughMatchesAlways(min_match_count, good_matches) == TRUE

\* detector.py:40
EnoughMatches(min_match_count, good_matches) == Len(good_matches) >= min_match_count

\* the fallback block of detector.py:52 without its condition
NeedsFallbackAlways(cfg, movement_score, good) == TRUE

\* the condition of detector.py:52 without its test movement_score == 0
NeedsFallbackSparseOnly(cfg, movement_score, good) == good < cfg.min_match_count

\* the condition of detector.py:52 with "not flagged by the homography
\* threshold" in place of movement_score == 0
NeedsFallbackUnflagged(cfg, movement_score, good) ==
    movement_score <= cfg.threshold_homography \/ good < cfg.min_match_count

\* detector.py:52
NeedsFallback(cfg, movement_score, good) ==
    movement_score = 0 \/ good < cfg.min_match_count

\* detector.py:60 taking the first signal in place of the maximum
FusedScoreFirst(scores) == scores[1]

\* detector.py:60, max(scores)
FusedScore(scores) == Max2(scores[1], Max2(scores[2], scores[3]))

(* detector.py:34-45,49: the geometric part of a comparison, which reads no
   threshold.  bf is what bf.match returns and found what cv2.findHomography
   returns when it is called.  The result: the number of good matches, H,
   movement_score before the fallback, and the displacements of the point
   pairs when calculate_movement_score gets no transform. *)
Geometric(min_match_count, bf, found) ==
    LET matches == SortByDistance(bf)
        good_matches == GoodMatches(matches)
        enough == EnoughMatches(min_match_count, good_matches)
        src_pts == [k \in 1..Len(good_matches) |-> good_matches[k].src]
        dst_pts == [k \in 1..Len(good_matches) |-> good_matches[k].dst]
        H == IF enough THEN found ELSE None
    IN  [good |-> Len(good_matches),
         H |-> H,
         score |-> IF enough THEN calculate_movement_score(H, src_pts, dst_pts) ELSE 0,
         disp |-> IF enough /\ H = None THEN Displacements(src_pts, dst_pts) ELSE <<>>]

\* every geometric result the inputs can produce, per min_match_count
GeometricResults ==
    [n \in {c.min_match_count : c \in Configurations \cup {DefaultConfiguration}} |->
        {Geometric(n, bf, found) : bf \in MatchLists, found \in HomographyResults}]

\* History of an iteration that compared nothing
NoStep ==
    [branch |-> "first", geometric |-> 0, disp |-> <<>>, fallback |-> FALSE,
     signals |-> <<0, 0, 0>>, fault |-> FALSE, same |-> FALSE]

\* the appends of detector.py:66-67 without the one to transformation_matrices
AppendRecordScoreOnly(d, indices, movement_score, H) ==
    [movement_indices |-> indices,
     movement_scores |-> Append(d.movement_scores, movement_score),
     transformation_matrices |->
        IF H = None THEN d.transformation_matrices
                    ELSE Append(d.transformation_matrices, H)]

\* detector.py:63-64, 66-67, 70-71: one score and one matrix per transition
AppendRecord(d, indices, movement_score, H) ==
    [movement_indices |-> indices,
     movement_scores |-> Append(d.movement_scores, movement_score),
     transformation_matrices |-> Append(d.transformation_matrices, H)]

(* detector.py:33-64: both frames have descriptors.  The result holds the
   lists after the iteration and the history record of the iteration. *)
Score(cfg, d, i, pframe, gray, geo, flow) ==
    LET enough == geo.good >= cfg.min_match_count
        H == geo.H
        score1 == geo.score
        flag1 == /\ enough
                 /\ IF H # None THEN ExceedsHomography(cfg, score1)
                                ELSE ExceedsRelaxed(cfg, score1)
        indices1 == IF flag1 THEN Append(d.movement_indices, i) ELSE d.movement_indices
        fb == NeedsFallback(cfg, score1, geo.good)
        scores == << calculate_frame_difference_score(pframe, gray),
                     calculate_optical_flow_score(pframe, gray, flow),
                     calculate_edge_motion_score(pframe, gray) >>
        score2 == IF fb THEN FusedScore(scores) ELSE score1
        flag2 == fb /\ ExceedsFeature(cfg, score2)
        indices2 == IF flag2 THEN Append(indices1, i) ELSE indices1
    IN  AppendRecord(d, indices2, score2, H) @@
        [last |-> [branch |-> IF ~enough THEN "sparse"
                              ELSE IF H # None THEN "homography" ELSE "degenerate",
                   geometric |-> score1,
                   disp |-> geo.disp,
                   fallback |-> fb,
                   signals |-> IF fb THEN scores ELSE <<0, 0, 0>>,
                   fault |-> fb /\ ShapeFault(pframe, gray),
                   same |-> FALSE]]

(* detector.py:30-71 for the frame with index i.  d holds the three result
   lists; geo is the geometric part of the comparison and flow what the
   corner tracker returns for this pair. *)
Compare(cfg, d, i, pframe, pdes, gray, des, geo, flow) ==
    IF pframe # None /\ pdes # None /\ des # None
    THEN IF pdes.len > 0 /\ des.len > 0
         THEN Score(cfg, d, i, pframe, gray, geo, flow)
         ELSE AppendRecord(d, d.movement_indices, 0, None) @@
              [last |-> [NoStep EXCEPT !.branch = "empty"]]
    ELSE IF i > 0
         THEN AppendRecord(d, d.movement_indices, 0, None) @@
              [last |-> [NoStep EXCEPT !.branch = "missing"]]
         ELSE [movement_indices |-> d.movement_indices,
               movement_scores |-> d.movement_scores,
               transformation_matrices |-> d.transformation_matrices,
               last |-> NoStep]

----------------------------------------------------------------------------
(* The state machine *)

EmptyLists ==
    [movement_indices |-> <<>>, movement_scores |-> <<>>, transformation_matrices |-> <<>>]

\* detector.py:15-22
Init ==
    /\ self \in Configurations
    /\ pc = "loop"
    /\ idx = 0
    /\ prev_frame = None
    /\ prev_des = None
    /\ movement_indices = <<>>
    /\ movement_scores = <<>>
    /\ transformation_matrices = <<>>
    /\ last = NoStep
    /\ low = [self |-> None] @@ EmptyLists
    /\ call = None

\* the lists of the run under self
Lists ==
    [movement_indices |-> movement_indices, movement_scores |-> movement_scores,
     transformation_matrices |-> transformation_matrices]

\* prev_des and des are both arrays with at least one descriptor (detector.py:30,33)
Matchable(des) ==
    /\ prev_frame # None /\ prev_des # None /\ des # None
    /\ prev_des.len > 0 /\ des.len > 0

NoGeometry == [good |-> 0, H |-> None, score |-> 0, disp |-> <<>>]

NoFlow == [corners |-> 0, tracked |-> 0, median |-> 0]

\* detector.py:72-74 keeping the previous frame when the new one has no
\* descriptors
RetainedWithDescriptors(pframe, pdes, gray, des) ==
    IF des = None /\ pframe # None
    THEN [prev_frame |-> pframe, prev_des |-> pdes]
    ELSE [prev_frame |-> gray, prev_des |-> des]

\* detector.py:72-74: what the next iteration compares with
Retained(pframe, pdes, gray, des) == [prev_frame |-> gray, prev_des |-> des]

(* detector.py:23-74: the loop consumes one frame.  OpenCV is asked only on
   the branches that call it.  With paired, the second run consumes the same
   frame and gets the same answers from OpenCV. *)
Consume(paired) ==
    /\ pc = "loop"
    /\ idx < MaxFrames
    /\ \E frame \in Frames :
       LET gray == [pix |-> frame.pix]
           des == frame.des
       IN
       \E geo \in (IF Matchable(des) THEN GeometricResults[self.min_match_count]
                   ELSE {NoGeometry}) :
       \E flow \in (IF Matchable(des) /\ NeedsFallback(self, geo.score, geo.good)
                    THEN OpticalFlowResults ELSE {NoFlow}) :
       \E r \in {Compare(self, Lists, idx, prev_frame, prev_des, gray, des, geo, flow)} :
           /\ movement_indices' = r.movement_indices
           /\ movement_scores' = r.movement_scores
           /\ transformation_matrices' = r.transformation_matrices
           /\ last' = r.last
           /\ prev_frame' = Retained(prev_frame, prev_des, gray, des).prev_frame
           /\ prev_des' = Retained(prev_frame, prev_des, gray, des).prev_des
           /\ idx' = idx + 1
           /\ IF paired
              THEN \E q \in {Compare(low.self, low, idx, prev_frame, prev_des, gray, des,
                                     geo, flow)} :
                      low' = [self |-> low.self,
                              movement_indices |-> q.movement_indices,
                              movement_scores |-> q.movement_scores,
                              transformation_matrices |-> q.transformation_matrices]
              ELSE low' = low
    /\ UNCHANGED <<self, pc, call>>

ProcessFrame == Consume(FALSE)

\* detector.py:75-79: the frames are exhausted and detect returns the three
\* lists; the loop's locals are gone
Return ==
    /\ pc = "loop"
    /\ pc' = "done"
    /\ prev_frame' = None
    /\ prev_des' = None
    /\ last' = NoStep
    /\ UNCHANGED <<self, idx, movement_indices, movement_scores,
                   transformation_matrices, low, call>>

Next == ProcessFrame \/ Return

Spec == Init /\ [][Next]_vars

----------------------------------------------------------------------------
(* Two runs of detect on the same frames: the run under self and a run under
   thresholds that are no higher and not both the same, with the same
   min_match_count. *)

NoHigher(c, d) ==
    /\ c # d
    /\ c.threshold_feature <= d.threshold_feature
    /\ c.threshold_homography <= d.threshold_homography
    /\ c.min_match_count = d.min_match_count

InitPair ==
    /\ self \in Configurations
    /\ pc = "loop"
    /\ idx = 0
    /\ prev_frame = None
    /\ prev_des = None
    /\ movement_indices = <<>>
    /\ movement_scores = <<>>
    /\ transformation_matrices = <<>>
    /\ last = NoStep
    /\ \E c \in Configurations :
          /\ NoHigher(c, self)
          /\ low = [self |-> c] @@ EmptyLists
    /\ call = None

ProcessFramePair == Consume(TRUE)

NextPair == ProcessFramePair \/ Return

SpecPair == InitPair /\ [][NextPair]_vars

----------------------------------------------------------------------------
(* ui_helpers.py: what the application shows of the result of detect.  A
   Python list s indexed by i (from 0) is the sequence element s[i + 1]; the
   index is in range when i < len(s). *)

\* s[i] of Python for i >= 0
PyItem(s, i) == s[i + 1]

RECURSIVE MinOf(_)
MinOf(s) == IF Len(s) = 1 THEN s[1] ELSE Min2(Head(s), MinOf(Tail(s)))

(* plot_movement_scores: the scores marked at the flagged frames (line 19),
   and the threshold line (lines 26-27), whose list comprehension indexes
   scores without a test and raises IndexError out of range *)
plot_movement_scores(movement_data) ==
    LET scores == movement_data.movement_scores
        indices == movement_data.movement_indices
        marked == [k \in 1..Len(indices) |->
                      IF indices[k] < Len(scores) THEN PyItem(scores, indices[k]) ELSE 0]
        draws == Len(indices) > 0 /\ Len(scores) > 0
        raised == draws /\ \E k \in 1..Len(indices) : ~(indices[k] < Len(scores))
    IN  [marked |-> marked,
         raised |-> raised,
         threshold |-> IF draws /\ ~raised
                       THEN MinOf([k \in 1..Len(indices) |-> PyItem(scores, indices[k])])
                       ELSE 0]

(* display_movement_details, lines 71-78: the matrices passed to
   classify_movement_type, each with the frame index it is shown for *)
display_movement_details(movement_data) ==
    LET matrices == movement_data.transformation_matrices
        indices == movement_data.movement_indices
    IN  { [frame |-> indices[k], matrix |-> PyItem(matrices, indices[k])] :
            k \in { j \in 1..Len(indices) :
                        /\ indices[j] < Len(matrices)
                        /\ PyItem(matrices, indices[j]) # None } }

----------------------------------------------------------------------------
(* detect on sequences that repeat a frame bit for bit.  OpenCV is a function
   of its input: on the repeated frame ORB finds the same keypoints and
   descriptors, the matcher pairs every descriptor with itself at distance 0,
   and every tracked corner stays where it was. *)

\* bf.match(des, des): n descriptors, each matched with itself
SelfMatches(n) == [k \in 1..n |-> [distance |-> 0, src |-> <<0, 0>>, dst |-> <<0, 0>>]]

\* utils.py:24-30 on two identical images: corners or none, no displacement
IdentityFlowResults ==
    { [corners |-> 0, tracked |-> 0, median |-> 0],
      [corners |-> 11, tracked |-> 11, median |-> 0] }

InitIdentity ==
    /\ self \in Configurations \cup {DefaultConfiguration}
    /\ pc = "loop"
    /\ idx = 0
    /\ prev_frame = None
    /\ prev_des = None
    /\ movement_indices = <<>>
    /\ movement_scores = <<>>
    /\ transformation_matrices = <<>>
    /\ last = NoStep
    /\ low = [self |-> None] @@ EmptyLists
    /\ call = None

\* detector.py:23-74 on a frame whose image differs from the previous one
ChangedFrame == ProcessFrame /\ prev_frame' # prev_frame

\* detector.py:23-74 on a frame that is bit-identical to the previous one
RepeatFrame ==
    /\ pc = "loop"
    /\ idx < MaxFrames
    /\ prev_frame # None
    /\ LET gray == prev_frame
           des == prev_des
       IN
       \E geo \in (IF Matchable(des)
                   THEN {Geometric(self.min_match_count, SelfMatches(des.len), found) :
                            found \in HomographyResults}
                   ELSE {NoGeometry}) :
       \E flow \in (IF Matchable(des) /\ NeedsFallback(self, geo.score, geo.good)
                    THEN IdentityFlowResults ELSE {NoFlow}) :
       \E r \in {Compare(self, Lists, idx, prev_frame, prev_des, gray, des, geo, flow)} :
           /\ movement_indices' = r.movement_indices
           /\ movement_scores' = r.movement_scores
           /\ transformation_matrices' = r.transformation_matrices
           /\ last' = [r.last EXCEPT !.same = TRUE]
           /\ prev_frame' = Retained(prev_frame, prev_des, gray, des).prev_frame
           /\ prev_des' = Retained(prev_frame, prev_des, gray, des).prev_des
           /\ idx' = idx + 1
    /\ UNCHANGED <<self, pc, low, call>>

NextIdentity == ChangedFrame \/ RepeatFrame \/ Return

SpecIdentity == InitIdentity /\ [][NextIdentity]_vars

----------------------------------------------------------------------------
(* detect on sequences that hold a frame cv2 cannot convert.  The loop body
   (detector.py:23-74) has no try statement, so what cv2 raises leaves
   detect. *)

\* frames with three dimensions whose channel count cv2.COLOR_BGR2GRAY does
\* not take (it takes 3 and 4)
MalformedFrames == { [channels |-> 2] }

\* detector.py:24-25: cv2.cvtColor raises cv2.error on the frame and the
\* exception propagates to the caller of detect; no result is returned
Raise ==
    /\ pc = "loop"
    /\ idx < MaxFrames
    /\ \E frame \in MalformedFrames :
          /\ frame.channels \notin {3, 4}
          /\ pc' = "raised"
    /\ prev_frame' = None
    /\ prev_des' = None
    /\ last' = NoStep
    /\ UNCHANGED <<self, idx, movement_indices, movement_scores,
                   transformation_matrices, low, call>>

NextFault == ProcessFrame \/ Raise \/ Return

SpecFault == Init /\ [][NextFault]_vars

----------------------------------------------------------------------------
(* Functions called on their own, on inputs the loop of detect does not
   enumerate: the good-match filter with the decision that follows it
   (detector.py:35-52) and calculate_optical_flow_score. *)

\* Hamming distances on both sides of the thresholds min(50, best * 2.5)
FilterDistances == {0, 10, 19, 20, 25, 47, 48, 50}

FilterMatchValues == [distance : FilterDistances, src : {<<0, 0>>}, dst : {<<0, 0>>}]

\* what bf.match returns, the worst match first
FilterMatchLists ==
    UNION { { ms \in [1..k -> FilterMatchValues] :
                \A i \in 1..(k - 1) : ms[i].distance >= ms[i + 1].distance }
            : k \in 0..MaxMatches }

\* the constructor takes any min_match_count (detector.py:12)
FilterMinMatchCounts == {1, MinMatchCountMin}

\* what cv2.findHomography would return if it were called
FilterHomographyResults == { None, Matrix(100, 0, 300, 0, 100, 400, 0, 0) }

\* cv2.goodFeaturesToTrack and cv2.calcOpticalFlowPyrLK: corners found,
\* corners tracked (status == 1) and the median displacement of those
FlowOutcomes ==
    { f \in [corners : {0, 8, 10, 11}, tracked : {0, 5, 6, 8}, median : {0, 100}] :
        f.tracked <= f.corners }

FilterCalls ==
    [fn : {"filter"}, min_match_count : FilterMinMatchCounts, bf : FilterMatchLists,
     found : FilterHomographyResults]

FlowCalls ==
    [fn : {"flow"}, prev : {[pix |-> <<0, 0>>], [pix |-> <<0>>]},
     curr : {[pix |-> <<0, 200>>]}, flow : FlowOutcomes]

InitFunctions ==
    /\ self = DefaultConfiguration
    /\ pc = "call"
    /\ idx = 0
    /\ prev_frame = None
    /\ prev_des = None
    /\ movement_indices = <<>>
    /\ movement_scores = <<>>
    /\ transformation_matrices = <<>>
    /\ last = NoStep
    /\ low = [self |-> None] @@ EmptyLists
    /\ call \in FilterCalls \cup FlowCalls

\* detector.py:35-52 on the matches of one transition: the sorted list, the
\* good matches, the geometric part and whether the fallback block runs
FilterCall ==
    /\ pc = "call"
    /\ call.fn = "filter"
    /\ LET matches == SortByDistance(call.bf)
           geo == Geometric(call.min_match_count, call.bf, call.found)
           cfg == [self EXCEPT !.min_match_count = call.min_match_count]
       IN  call' = [fn |-> "filter",
                    min_match_count |-> call.min_match_count,
                    found |-> call.found,
                    matches |-> matches,
                    good_matches |-> GoodMatches(matches),
                    geo |-> geo,
                    fallback |-> NeedsFallback(cfg, geo.score, geo.good)]
    /\ pc' = "returned"
    /\ UNCHANGED <<self, idx, prev_frame, prev_des, movement_indices, movement_scores,
                   transformation_matrices, last, low>>

\* utils.py:22-34
FlowCall ==
    /\ pc = "call"
    /\ call.fn = "flow"
    /\ call' = [fn |-> "flow", prev |-> call.prev, curr |-> call.curr, flow |-> call.flow,
                result |-> calculate_optical_flow_score(call.prev, call.curr, call.flow)]
    /\ pc' = "returned"
    /\ UNCHANGED <<self, idx, prev_frame, prev_des, movement_indices, movement_scores,
                   transformation_matrices, last, low>>

NextFunctions == FilterCall \/ FlowCall

SpecFunctions == InitFunctions /\ [][NextFunctions]_vars

----------------------------------------------------------------------------
(* Properties *)

\* the frame indices in movement_indices
FlaggedSet == {movement_indices[k] : k \in 1..Len(movement_indices)}

\* the latest iteration compared two frames; its record is the last one
Compared == pc = "loop" /\ last.branch # "first"

\* the score recorded by the latest iteration
LastScore == movement_scores[Len(movement_scores)]

\* the latest iteration flagged its frame
LastFlagged == (idx - 1) \in FlaggedSet

(* C1: after every loop iteration and at return, movement_scores and
   transformation_matrices have the same length, which is N-1 for N frames
   consumed and 0 for N <= 1, whichever branch each transition took. *)
C1_LengthInvariant ==
    /\ Len(movement_scores) = Len(transformation_matrices)
    /\ Len(movement_scores) = (IF idx <= 1 THEN 0 ELSE idx - 1)

\* detect returned after three frames, one transition with a transform and
\* one without
C1_Witness ==
    /\ pc = "done"
    /\ idx = 3
    /\ Len(movement_scores) = 2
    /\ \E j, k \in 1..2 : /\ transformation_matrices[j] # None
                          /\ transformation_matrices[k] = None

(* C2: movement_indices is strictly ascending and each of its elements is
   the index of a frame after the first, 1 .. N-1. *)
C2_IndicesAscending ==
    /\ \A k \in 1..Len(movement_indices) : movement_indices[k] \in 1..(idx - 1)
    /\ \A k \in 1..(Len(movement_indices) - 1) :
          movement_indices[k] < movement_indices[k + 1]

\* detect returned two flagged frames
C2_Witness == pc = "done" /\ movement_indices = <<1, 2>>

(* C3: the score recorded for the transition of every flagged frame index is
   strictly positive. *)
C3_FlaggedScorePositive ==
    \A k \in 1..Len(movement_indices) :
        /\ movement_indices[k] \in 1..Len(movement_scores)
        /\ movement_scores[movement_indices[k]] > 0

\* a frame flagged on the smallest score that can flag: the tracked corners
\* moved by one pixel and the feature threshold is 1.0
C3_Witness ==
    /\ pc = "done"
    /\ Len(movement_indices) > 0
    /\ movement_scores[movement_indices[1]] = 300

(* C4: every recorded score is at least 0. *)
C4_ScoresNonNegative ==
    \A k \in 1..Len(movement_scores) : movement_scores[k] >= 0

\* the three fallback scorers faulted on frames of different shapes and the
\* recorded score is their fail-safe 0, after a transition scored from a
\* homography
C4_Witness ==
    /\ Compared
    /\ last.fault
    /\ Len(movement_scores) = 2
    /\ LastScore = 0
    /\ transformation_matrices[1] # None
    /\ movement_scores[1] > 0

\* the transform recorded by the latest iteration (None when there is none)
LastTransform == transformation_matrices[Len(transformation_matrices)]

\* the three fallback signals of a frame pair, given what the corner tracker
\* returns for it
Signals(prev, curr, flow) ==
    << calculate_frame_difference_score(prev, curr),
       calculate_optical_flow_score(prev, curr, flow),
       calculate_edge_motion_score(prev, curr) >>

\* the largest of three values, stated without FusedScore
IsMaximum(v, signals) ==
    /\ \E k \in 1..3 : signals[k] = v
    /\ \A k \in 1..3 : signals[k] <= v

(* C5: a transition with fewer good matches than min_match_count, or with a
   descriptor set that is missing or empty on either side, records the fused
   three-signal score of its two frames and is flagged exactly when that
   score exceeds threshold_feature. *)
C5_FallbackOnSparseOrEmpty ==
    [][ (idx' = idx + 1 /\ last'.branch \in {"sparse", "empty", "missing"}) =>
          \E flow \in OpticalFlowResults :
             LET fused == FusedScore(Signals(prev_frame, prev_frame', flow))
             IN  /\ movement_scores'[Len(movement_scores')] = fused
                 /\ (idx \in {movement_indices'[k] : k \in 1..Len(movement_indices')})
                        <=> fused > self.threshold_feature ]_vars

(* C6 as stated: a transition on the homography or the degenerate path is
   neither scored nor flagged by the fallback signals, and its recorded score
   is the score of its path. *)
C6_PathsDisjoint ==
    (Compared /\ last.branch \in {"homography", "degenerate"}) =>
        /\ ~last.fallback
        /\ LastScore = last.geometric

(* C6, amended: a transition with descriptors on both sides is scored and
   flagged by exactly one path unless its homography or degenerate score is
   exactly 0.  With too few good matches the fallback alone scores it; with
   enough and a nonzero geometric score the geometric path alone scores it
   and the fallback does not run; with enough and a geometric score of 0 the
   fallback runs as well, replaces the score by the fused one and decides the
   flag, while the transform found stays in the record.  A transition with a
   missing or empty descriptor set is scored by no path. *)
C6_PathsDisjointUnlessZero ==
    Compared =>
        /\ last.branch = "sparse" =>
              /\ last.fallback
              /\ LastTransform = None
              /\ IsMaximum(LastScore, last.signals)
        /\ last.branch \in {"homography", "degenerate"} =>
              /\ last.fallback <=> last.geometric = 0
              /\ (LastTransform # None) <=> last.branch = "homography"
              /\ last.geometric # 0 => LastScore = last.geometric
              /\ last.geometric = 0 =>
                    /\ IsMaximum(LastScore, last.signals)
                    /\ LastFlagged <=> LastScore > self.threshold_feature
        /\ last.branch \in {"empty", "missing"} =>
              /\ ~last.fallback
              /\ LastScore = 0
              /\ LastTransform = None
              /\ ~LastFlagged

\* the identity was found as transform, its score is 0, and the fallback
\* signals scored and flagged the transition whose record holds the transform
C6_Witness ==
    /\ Compared
    /\ last.branch = "homography"
    /\ last.geometric = 0
    /\ last.fallback
    /\ LastTransform # None
    /\ LastScore > 0
    /\ LastFlagged

(* C7 as stated: every record with a transform is flagged exactly when its
   score exceeds threshold_homography. *)
C7_FlaggedIffAboveHomography ==
    \A k \in 1..Len(transformation_matrices) :
        transformation_matrices[k] # None =>
            (k \in FlaggedSet <=> movement_scores[k] > self.threshold_homography)

(* C7, amended: on the homography path with a nonzero decomposition score the
   recorded score is that score and the transition is flagged exactly when it
   exceeds threshold_homography; with a decomposition score of exactly 0 the
   transition is flagged exactly when the recorded (fused) score exceeds
   threshold_feature. *)
C7_HomographyFlag ==
    (Compared /\ last.branch = "homography") =>
        /\ LastTransform # None
        /\ last.geometric # 0 =>
              /\ LastScore = last.geometric
              /\ LastFlagged <=> LastScore > self.threshold_homography
        /\ last.geometric = 0 =>
              (LastFlagged <=> LastScore > self.threshold_feature)

\* a translation scored 7.5 from its homography: above the feature threshold
\* 5.0, below the homography threshold 15.0, recorded and not flagged
C7_Witness ==
    /\ Compared
    /\ last.branch = "homography"
    /\ last.geometric > self.threshold_feature
    /\ last.geometric <= self.threshold_homography
    /\ LastScore = last.geometric
    /\ ~LastFlagged

(* C8 as stated: on the degenerate path the recorded score is the median
   displacement plus a tenth of the displacement variance, and the transition
   is flagged exactly when that score exceeds half of threshold_homography. *)
C8_DegenerateRelaxed ==
    (Compared /\ last.branch = "degenerate") =>
        /\ LastScore = Median(last.disp) + Variance(last.disp) \div 10
        /\ LastFlagged <=> LastScore * 10 > self.threshold_homography * 5

(* C8, amended: on the degenerate path the displacement score is the median
   displacement plus a tenth of the displacement variance; when it is nonzero
   it is the recorded score and the transition is flagged exactly when it
   exceeds threshold_homography * 0.5; when it is exactly 0 the recorded
   score is the fused fallback score and the transition is flagged exactly
   when that exceeds threshold_feature. *)
C8_DegenerateRelaxedUnlessZero ==
    (Compared /\ last.branch = "degenerate") =>
        /\ LastTransform = None
        /\ last.geometric = Median(last.disp) + Variance(last.disp) \div 10
        /\ last.geometric # 0 =>
              /\ LastScore = last.geometric
              /\ LastFlagged <=> LastScore * 10 > self.threshold_homography * 5
        /\ last.geometric = 0 =>
              /\ IsMaximum(LastScore, last.signals)
              /\ LastFlagged <=> LastScore > self.threshold_feature

\* matched points 5 pixels apart and no transform: the score 5.0 is flagged
\* against the homography threshold 5.0, being above its half
C8_Witness ==
    /\ Compared
    /\ last.branch = "degenerate"
    /\ LastScore = last.geometric
    /\ LastScore <= self.threshold_homography
    /\ LastScore * 10 > self.threshold_homography * 5
    /\ LastFlagged

(* C9: whenever the fallback scores a transition the recorded score is the
   maximum of the three signals, every signal is 0 when its computation
   faults, and the transition is flagged exactly when the maximum exceeds
   threshold_feature. *)
C9_FusedMaximum ==
    (Compared /\ last.fallback) =>
        /\ IsMaximum(LastScore, last.signals)
        /\ last.fault => last.signals = <<0, 0, 0>>
        /\ LastFlagged <=> LastScore > self.threshold_feature

\* the sparse flow is the largest signal and flags the transition, the global
\* difference being smaller
C9_Witness ==
    /\ Compared
    /\ last.fallback
    /\ ~last.fault
    /\ last.signals[2] > last.signals[1]
    /\ last.signals[2] > last.signals[3]
    /\ LastScore = last.signals[2]
    /\ LastFlagged

\* the frame indices flagged by the run under the lower thresholds
LowFlaggedSet == {low.movement_indices[k] : k \in 1..Len(low.movement_indices)}

(* C10: of two runs on the same frames with the same min_match_count, the run
   whose two thresholds are no higher flags every frame index the other one
   flags, so it flags at least as many, and both record the same scores and
   the same transforms. *)
C10_MonotonicSensitivity ==
    low.self # None =>
        /\ FlaggedSet \subseteq LowFlaggedSet
        /\ Len(low.movement_indices) >= Len(movement_indices)
        /\ low.movement_scores = movement_scores
        /\ low.transformation_matrices = transformation_matrices

\* both runs returned; the run under the lower thresholds flagged a frame the
\* other one did not, and both flagged another
C10_Witness ==
    /\ pc = "done"
    /\ low.self # None
    /\ Len(movement_indices) > 0
    /\ Len(low.movement_indices) > Len(movement_indices)
    /\ \E k \in 1..Len(transformation_matrices) : transformation_matrices[k] # None

(* C11: a transition between two bit-identical frames records the score 0
   and is not flagged, on every path it can take and under every
   configuration, the default one (5.0, 15.0, 8) included. *)
C11_IdentityTransition ==
    (Compared /\ last.same) =>
        /\ LastScore = 0
        /\ ~LastFlagged

\* under the default configuration a frame with descriptors and an edge in
\* its image is repeated after a transition that moved: the fallback scores
\* the repetition 0
C11_Witness ==
    /\ Compared
    /\ last.same
    /\ self = DefaultConfiguration
    /\ last.branch = "sparse"
    /\ last.fallback
    /\ prev_frame.pix = <<0, 200>>
    /\ Len(movement_scores) = 2
    /\ movement_scores[1] > 0
    /\ LastScore = 0

(* C12: cv2.findHomography is called only for a transition with at least
   min_match_count good matches (branch "homography" or "degenerate"): a
   record holds a transform only on the branch "homography", and the record
   of a transition with fewer good matches, or with a missing or empty
   descriptor set, holds none. *)
C12_EstimatorGuarded ==
    Compared =>
        /\ LastTransform # None => last.branch = "homography"
        /\ last.branch \in {"sparse", "empty", "missing"} => LastTransform = None

\* a transition with too few good matches and no transform follows one with
\* enough good matches and a transform
C12_Witness ==
    /\ Compared
    /\ last.branch = "sparse"
    /\ last.fallback
    /\ Len(transformation_matrices) = 2
    /\ transformation_matrices[1] # None
    /\ transformation_matrices[2] = None

(* C13: detect on an empty frame sequence does not produce a normal result:
   it never returns without having consumed a frame. *)
C13_EmptySequenceRejected == ~(pc = "done" /\ idx = 0)

(* C14: no fault is fatal to the sequence: whatever a frame makes cv2 do,
   detect appends a record for the transition and goes on, so it never ends
   by an exception. *)
C14_NoFaultFatal == pc # "raised"

(* C15: the iteration on the first frame appends no record; the iteration on
   every later frame i appends exactly one score and one matrix behind the
   earlier ones, and that record is computed from frame i-1 (the image and
   descriptors retained before the iteration) and frame i (those retained
   after it): the branch taken follows their descriptors and the fallback
   signals are those of their two images.  After every iteration the retained
   image and descriptors are those of the frame just consumed, on the
   branches that record 0 without matching as well. *)
C15_StateMachineOrdering ==
    [][ idx' = idx + 1 =>
          /\ prev_frame' # None
          /\ idx = 0 =>
                /\ movement_scores' = <<>>
                /\ transformation_matrices' = <<>>
                /\ movement_indices' = <<>>
                /\ last'.branch = "first"
          /\ idx > 0 =>
                /\ movement_scores' # <<>>
                /\ movement_scores = SubSeq(movement_scores', 1, Len(movement_scores') - 1)
                /\ transformation_matrices' # <<>>
                /\ transformation_matrices =
                      SubSeq(transformation_matrices', 1, Len(transformation_matrices') - 1)
                /\ last'.branch = "missing" <=> (prev_des = None \/ prev_des' = None)
                /\ last'.branch = "empty" <=>
                      /\ prev_des # None
                      /\ prev_des' # None
                      /\ prev_des.len = 0 \/ prev_des'.len = 0
                /\ last'.fault <=> (last'.fallback /\ ShapeFault(prev_frame, prev_frame'))
                /\ last'.fallback =>
                      /\ last'.signals[1] =
                            calculate_frame_difference_score(prev_frame, prev_frame')
                      /\ last'.signals[3] =
                            calculate_edge_motion_score(prev_frame, prev_frame') ]_vars

\* the third frame has no descriptors: its transition recorded 0 without
\* matching after a transition that scored, and the frame retained for the
\* next comparison is the one without descriptors
C15_Witness ==
    /\ Compared
    /\ idx = 3
    /\ last.branch = "missing"
    /\ prev_frame # None
    /\ prev_des = None
    /\ Len(movement_scores) = 2
    /\ movement_scores[1] > 0
    /\ movement_scores[2] = 0

\* the good-match filter has returned on a non-empty match list
Filtered == pc = "returned" /\ call.fn = "filter" /\ call.matches # <<>>

(* C16: for every non-empty match list, sorted ascending by distance, the
   good matches are exactly the matches whose distance is strictly below
   min(50, best distance * 2.5); they are a prefix of the sorted list and
   none of them has a distance of 50 or more. *)
C16_AdaptiveFilter ==
    Filtered =>
        LET sorted == call.matches
            good == call.good_matches
            best == sorted[1].distance
        IN  /\ \A k \in 1..(Len(sorted) - 1) : sorted[k].distance <= sorted[k + 1].distance
            /\ Len(good) <= Len(sorted)
            /\ good = SubSeq(sorted, 1, Len(good))
            /\ \A k \in 1..Len(sorted) :
                  (k <= Len(good)) <=>
                      (sorted[k].distance < 50 /\ 2 * sorted[k].distance < 5 * best)
            /\ \A k \in 1..Len(good) : good[k].distance < 50

\* best distance 25, so the ceiling 50 is the threshold (62.5 would be): the
\* matches at 47 and 48 are kept and the one at 50 is dropped
C16_Witness ==
    /\ Filtered
    /\ call.matches[1].distance = 25
    /\ Len(call.good_matches) = 3
    /\ call.good_matches[3].distance = 48
    /\ Len(call.matches) = 4
    /\ call.matches[4].distance = 50

\* calculate_optical_flow_score has returned
Flowed == pc = "returned" /\ call.fn = "flow"

(* C17 as stated: the sparse-flow signal is the median tracked displacement
   times 3 whenever at least 6 corners were tracked, and 0 otherwise (fewer
   tracked, no corners, or a fault). *)
C17_SparseFlowTracked ==
    Flowed =>
        call.result = (IF ~ShapeFault(call.prev, call.curr) /\ call.flow.tracked >= 6
                       THEN call.flow.median * 3 ELSE 0)

(* C17, amended: the sparse-flow signal is the median tracked displacement
   times 3 whenever more than 10 corners were found in the previous frame and
   at least 6 of them were tracked, and 0 otherwise (10 corners or fewer,
   fewer than 6 tracked, or a fault). *)
C17_SparseFlowCornersAndTracked ==
    Flowed =>
        call.result = (IF /\ ~ShapeFault(call.prev, call.curr)
                          /\ call.flow.corners >= 11
                          /\ call.flow.tracked >= 6
                       THEN call.flow.median * 3 ELSE 0)

\* 10 corners found, 8 of them tracked by one pixel: the signal is 0
C17_Witness ==
    /\ Flowed
    /\ ~ShapeFault(call.prev, call.curr)
    /\ call.flow.corners = 10
    /\ call.flow.tracked = 8
    /\ call.flow.median = 100
    /\ call.result = 0

(* C18: for every result detect returns, plot_movement_scores indexes
   movement_scores in range only: it raises no IndexError, also when the last
   transition of the sequence is flagged. *)
C18_PlotInRange == pc = "done" => ~plot_movement_scores(Lists).raised

(* C19: for every result detect returns and every flagged frame index, the
   matrix display_movement_details passes to classify_movement_type and the
   score plot_movement_scores marks are those recorded for the transition
   into that frame. *)
C19_ShownRecordIsFlaggedOne ==
    pc = "done" =>
        /\ \A d \in display_movement_details(Lists) :
              d.matrix = transformation_matrices[d.frame]
        /\ \A k \in 1..Len(movement_indices) :
              plot_movement_scores(Lists).marked[k] = movement_scores[movement_indices[k]]

(* C20: whenever the best match distance is 0 the filter keeps no match, so
   cv2.findHomography is not called, the transform is absent and the fallback
   block runs, however many matches there are and for min_match_count 1 as
   well; the best match is a good match exactly when its distance d
   satisfies 0 < d < 50. *)
C20_ZeroBestDistance ==
    Filtered =>
        LET best == call.matches[1].distance
        IN  /\ best = 0 =>
                  /\ call.good_matches = <<>>
                  /\ call.geo.good = 0
                  /\ call.geo.H = None
                  /\ call.fallback
            /\ (call.good_matches # <<>> /\ call.good_matches[1] = call.matches[1])
                  <=> (0 < best /\ best < 50)

\* four matches, all at distance 0, min_match_count 1 and a transform that
\* cv2.findHomography would find: no good match, no transform, fallback
C20_Witness ==
    /\ Filtered
    /\ Len(call.matches) = 4
    /\ \A k \in 1..4 : call.matches[k].distance = 0
    /\ call.min_match_count = 1
    /\ call.found # None
    /\ call.good_matches = <<>>
    /\ call.geo.H = None
    /\ call.fallback

====
